---- MODULE Spec2Model ----
(***************************************************************************)
(* Model of the blogicum views (blog/views.py), the relational rules of    *)
(* blog/models.py and the admin registrations of blog/admin.py.            *)
(*                                                                         *)
(* The store is the five tables User, Category, Location, Post, Comment.   *)
(* Every HTTP request is one atomic step (one request, one transaction).   *)
(* `last` holds the most recent step: the request and the response the     *)
(* view produced for it.                                                   *)
(***************************************************************************)
EXTENDS Integers, Sequences, FiniteSets, TLC

VARIABLES users, categories, locations, posts, comments,
          nextPost, nextComment, now, last

vars == <<users, categories, locations, posts, comments,
          nextPost, nextComment, now, last>>

store == <<users, categories, locations, posts, comments, nextPost, nextComment>>

----------------------------------------------------------------------------
(* Bounds of the model *)

MaxPosts == 2
MaxComments == 1
MaxTime == 1
MaxPage == 2
MaxItems == 12

(* Program constants *)

POSTS_COUNT == 10

Null == 0
AnonymousUser == 0

Users == {1, 2}
Categories == {1}
Locations == {1}
Names == {"a", "b"}
Texts == {"x", "y"}
PostIds == 1..MaxPosts
CommentIds == 1..MaxComments
Times == 0..MaxTime
Pages == 1..MaxPage
Methods == {"GET", "POST"}

----------------------------------------------------------------------------
(* Helpers on functions used as tables *)

Restrict(f, S) == [x \in S |-> f[x]]

Insert(f, k, v) == [x \in DOMAIN f \cup {k} |-> IF x = k THEN v ELSE f[x]]

EmptyTable == [x \in {} |-> 0]

----------------------------------------------------------------------------
(* Requests and responses *)

NoRequest ==
    [op |-> "none", user |-> AnonymousUser, arg |-> 0,
     post_id |-> 0, page |-> 0, status |-> "none", target |-> 0,
     items |-> <<>>, delPosts |-> {}, delComments |-> {}, setNull |-> {}]

Request(op, user, arg) ==
    [NoRequest EXCEPT !.op = op, !.user = user, !.arg = arg]

is_authenticated(user) == user \in DOMAIN users

(* Who can send a request: a logged-in user whose account exists, or an
   anonymous visitor *)
Requesters == DOMAIN users \cup {AnonymousUser}

(* LoginRequiredMixin.dispatch: redirect to the login page *)
RedirectToLogin(req) == [req EXCEPT !.status = "login"]

(* redirect('blog:post_detail', post_id=...) *)
RedirectToDetail(req, post_id) ==
    [req EXCEPT !.status = "detail", !.target = post_id]

(* reverse('blog:profile', username=request.user) *)
RedirectToProfile(req) == [req EXCEPT !.status = "profile", !.target = req.user]

Http404(req) == [req EXCEPT !.status = "404"]

ServerError(req) == [req EXCEPT !.status = "500"]

Render(req) == [req EXCEPT !.status = "200"]

----------------------------------------------------------------------------
(* Query service *)

(* Post.objects.filter(pub_date__lte=now, is_published=True,
   category__is_published=True): the join on category drops posts whose
   category is NULL *)
IsVisibleIgnoringDate(p) ==
    /\ posts[p].is_published
    /\ posts[p].category # Null
    /\ categories[posts[p].category].is_published

IsVisible(p) ==
    /\ posts[p].pub_date <= now
    /\ posts[p].is_published
    /\ posts[p].category # Null
    /\ categories[posts[p].category].is_published

(* order_by('-pub_date'): every ordering of the rows S that is descending in
   pub_date; rows with equal pub_date come in any order *)
RECURSIVE OrderByPubDateDesc(_)
OrderByPubDateDesc(S) ==
    IF S = {} THEN {<<>>}
    ELSE LET top == {p \in S : \A q \in S : posts[q].pub_date <= posts[p].pub_date}
         IN UNION {{<<p>> \o s : s \in OrderByPubDateDesc(S \ {p})} : p \in top}

get_filtered_posts == {p \in DOMAIN posts : IsVisible(p)}

Min(a, b) == IF a < b THEN a ELSE b

(* ListView.paginate_queryset with paginate_by = POSTS_COUNT: the number of
   pages is at least one; a page number beyond it raises Http404 *)
NumPages(R) ==
    IF Len(R) = 0 THEN 1 ELSE (Len(R) + POSTS_COUNT - 1) \div POSTS_COUNT

PageItems(R, page) ==
    SubSeq(R, POSTS_COUNT * (page - 1) + 1, Min(POSTS_COUNT * page, Len(R)))

PaginateAnyPage(req, R, page) ==
    Render([req EXCEPT !.page = page, !.items = PageItems(R, page)])

Paginate(req, R, page) ==
    IF page < 1 \/ page > NumPages(R)
    THEN Http404([req EXCEPT !.page = page])
    ELSE Render([req EXCEPT !.page = page, !.items = PageItems(R, page)])

----------------------------------------------------------------------------
(* No Location row exists: posts are created without a location *)
Init ==
    /\ users = [u \in Users |-> [name |-> "a"]]
    /\ categories \in [Categories -> [is_published : BOOLEAN]]
    /\ locations = {}
    /\ posts = EmptyTable
    /\ comments = EmptyTable
    /\ nextPost = 1
    /\ nextComment = 1
    /\ now = 0
    /\ last = NoRequest

(* The admin has created the Location rows *)
InitRefs ==
    /\ users = [u \in Users |-> [name |-> "a"]]
    /\ categories \in [Categories -> [is_published : BOOLEAN]]
    /\ locations = Locations
    /\ posts = EmptyTable
    /\ comments = EmptyTable
    /\ nextPost = 1
    /\ nextComment = 1
    /\ now = 0
    /\ last = NoRequest

(* A blog that already holds n posts, all publicly visible, with pairwise
   different pub_date: the listings are longer than one page *)
InitPage ==
    /\ users = [u \in Users |-> [name |-> "a"]]
    /\ categories = [c \in Categories |-> [is_published |-> TRUE]]
    /\ locations = {}
    /\ \E n \in 0..MaxItems :
          /\ posts = [i \in 1..n |->
                        [author |-> 1, is_published |-> TRUE, pub_date |-> i,
                         category |-> 1, location |-> Null]]
          /\ nextPost = n + 1
          /\ now = n
    /\ comments = EmptyTable
    /\ nextComment = 1
    /\ last = NoRequest

----------------------------------------------------------------------------
(* Forms (blog/forms.py): PostForm edits pub_date, location and category
   (title, text and image carry no rule and are left out); category is
   required, location is optional.  CommentForm edits text. *)

PostForms ==
    [pub_date : Times, category : Categories \cup {Null},
     location : Locations \cup {Null}]

PostFormIsValid(form) ==
    /\ form.category \in DOMAIN categories
    /\ form.location \in locations \cup {Null}

CommentForms == Texts \cup {""}

CommentFormIsValid(text) == text # ""

UserForms == Names \cup {""}

UserFormIsValid(name) == name # ""

----------------------------------------------------------------------------
(* Deletion rules of blog/models.py *)

CommentsOfPostsNoCascade(P) == {}

(* Comment.post: on_delete=CASCADE *)
CommentsOfPosts(P) == {c \in DOMAIN comments : comments[c].post \in P}

(* Post.author: on_delete=CASCADE *)
PostsOfUser(u) == {p \in DOMAIN posts : posts[p].author = u}

(* Comment.author: on_delete=CASCADE *)
CommentsOfUser(u) == {c \in DOMAIN comments : comments[c].author = u}

CategoryCascade(c) ==
    Restrict(posts, {p \in DOMAIN posts : posts[p].category # c})

(* Post.category: on_delete=SET_NULL *)
CategorySetNull(c) ==
    [p \in DOMAIN posts |->
        IF posts[p].category = c THEN [posts[p] EXCEPT !.category = Null]
        ELSE posts[p]]

(* Post.location: on_delete=SET_NULL *)
LocationSetNull(l) ==
    [p \in DOMAIN posts |->
        IF posts[p].location = l THEN [posts[p] EXCEPT !.location = Null]
        ELSE posts[p]]

----------------------------------------------------------------------------
(* Read views *)

PostListView(page) ==
    /\ \E R \in OrderByPubDateDesc(get_filtered_posts) :
          last' = Paginate(Request("PostList", AnonymousUser, 0), R, page)
    /\ UNCHANGED <<store, now>>

(* The guard of PostDetailView.dispatch for a requester who is not the
   author; `category.is_published` is read first, on a category that may
   be None *)
DetailDenied(p) ==
    \/ ~categories[posts[p].category].is_published
    \/ ~posts[p].is_published
    \/ posts[p].pub_date > now

PostDetailView(user, post_id) ==
    /\ LET req == Request("PostDetail", user, post_id)
       IN last' =
            IF post_id \notin DOMAIN posts THEN Http404(req)
            ELSE IF posts[post_id].author # user
            THEN IF posts[post_id].category = Null THEN ServerError(req)
                 ELSE IF DetailDenied(post_id) THEN Http404(req)
                 ELSE Render([req EXCEPT !.items = <<post_id>>])
            ELSE Render([req EXCEPT !.items = <<post_id>>])
    /\ UNCHANGED <<store, now>>

CategoryListView(category_slug, page) ==
    /\ LET req == Request("CategoryList", AnonymousUser, category_slug)
           qs == {p \in get_filtered_posts : posts[p].category = category_slug}
       IN \E R \in OrderByPubDateDesc(qs) :
            LET resp == Paginate(req, R, page)
            IN last' =
                 IF resp.status = "404" THEN resp
                 ELSE IF \/ category_slug \notin DOMAIN categories
                         \/ ~categories[category_slug].is_published
                 THEN Http404([req EXCEPT !.page = page])
                 ELSE resp
    /\ UNCHANGED <<store, now>>

(* Post.objects.filter(author=self.author): no visibility filter *)
ProfilePosts(username) ==
    {p \in DOMAIN posts : posts[p].author = username}

ProfileListView(user, username, page) ==
    /\ LET req == Request("ProfileList", user, username)
       IN IF username \notin DOMAIN users
          THEN last' = Http404([req EXCEPT !.page = page])
          ELSE \E R \in OrderByPubDateDesc(ProfilePosts(username)) :
                  last' = Paginate(req, R, page)
    /\ UNCHANGED <<store, now>>

----------------------------------------------------------------------------
(* Post create / update / delete.  DeleteView.post() calls delete() and
   redirects to get_success_url(); ValidationMixin.form_valid is reached by
   the create and update views only. *)

(* ContetnAuthorMixin.dispatch: get_object() (404 when the row is missing),
   then the author comparison, and only then LoginRequiredMixin *)
ContentAuthorCheckNoOwner(req, table, post_id) ==
    IF req.arg \notin DOMAIN table THEN Http404(req)
    ELSE req

ContentAuthorCheckLoginOnly(req, table, post_id) ==
    IF req.arg \notin DOMAIN table THEN Http404(req)
    ELSE IF ~is_authenticated(req.user) THEN RedirectToDetail(req, post_id)
    ELSE req

ContentAuthorCheck(req, table, post_id) ==
    IF req.arg \notin DOMAIN table THEN Http404(req)
    ELSE IF table[req.arg].author # req.user THEN RedirectToDetail(req, post_id)
    ELSE req

PostCreateView(user) ==
    LET req == Request("PostCreate", user, 0)
    IN IF ~is_authenticated(user)
       THEN last' = RedirectToLogin(req) /\ UNCHANGED <<store, now>>
       ELSE \E method \in Methods : IF method = "GET"
       THEN last' = Render(req) /\ UNCHANGED <<store, now>>
       ELSE \E form \in PostForms :
         IF ~PostFormIsValid(form)
         THEN last' = Render(req) /\ UNCHANGED <<store, now>>
         ELSE
            /\ nextPost <= MaxPosts
            /\ posts' = Insert(posts, nextPost,
                    [author |-> user, is_published |-> TRUE,
                     pub_date |-> form.pub_date, category |-> form.category,
                     location |-> form.location])
            /\ nextPost' = nextPost + 1
            /\ last' = RedirectToProfile([req EXCEPT !.arg = nextPost])
            /\ UNCHANGED <<users, categories, locations, comments, nextComment, now>>

PostUpdateView(user, post_id) ==
    LET req == Request("PostUpdate", user, post_id)
        chk == ContentAuthorCheck(req, posts, post_id)
    IN IF chk.status # "none"
       THEN last' = chk /\ UNCHANGED <<store, now>>
       ELSE \E method \in Methods : IF method = "GET"
       THEN last' = Render(req) /\ UNCHANGED <<store, now>>
       ELSE \E form \in PostForms :
         IF ~PostFormIsValid(form)
         THEN last' = Render(req) /\ UNCHANGED <<store, now>>
         ELSE
            /\ posts' = [posts EXCEPT ![post_id] =
                    [@ EXCEPT !.author = user, !.pub_date = form.pub_date,
                              !.category = form.category,
                              !.location = form.location]]
            /\ last' = RedirectToDetail(req, post_id)
            /\ UNCHANGED <<users, categories, locations, comments,
                           nextPost, nextComment, now>>

PostDeleteView(user, post_id) ==
    LET req == Request("PostDelete", user, post_id)
        chk == ContentAuthorCheck(req, posts, post_id)
    IN IF chk.status # "none"
       THEN last' = chk /\ UNCHANGED <<store, now>>
       ELSE \E method \in Methods : IF method = "GET"
       THEN last' = Render(req) /\ UNCHANGED <<store, now>>
       ELSE /\ posts' = Restrict(posts, DOMAIN posts \ {post_id})
            /\ comments' = Restrict(comments,
                    DOMAIN comments \ CommentsOfPosts({post_id}))
            /\ last' = RedirectToProfile(
                    [req EXCEPT !.delPosts = {post_id},
                                !.delComments = CommentsOfPosts({post_id})])
            /\ UNCHANGED <<users, categories, locations,
                           nextPost, nextComment, now>>

----------------------------------------------------------------------------
(* Profile update *)

ProfileUpdateView(user) ==
    LET req == Request("ProfileUpdate", user, user)
    IN IF ~is_authenticated(user)
       THEN last' = RedirectToLogin(req) /\ UNCHANGED <<store, now>>
       ELSE \E method \in Methods : IF method = "GET"
       THEN last' = Render(req) /\ UNCHANGED <<store, now>>
       ELSE \E name \in UserForms :
         IF ~UserFormIsValid(name)
         THEN last' = Render(req) /\ UNCHANGED <<store, now>>
         ELSE
            /\ users' = [users EXCEPT ![user].name = name]
            /\ last' = RedirectToProfile(req)
            /\ UNCHANGED <<categories, locations, posts, comments,
                           nextPost, nextComment, now>>

----------------------------------------------------------------------------
(* Comment create / update / delete *)

CommentablePostsAll == DOMAIN posts

CommentablePosts == get_filtered_posts

CommentCreateView(user, post_id) ==
    LET req == [Request("CommentCreate", user, 0) EXCEPT !.post_id = post_id]
    IN IF ~is_authenticated(user)
       THEN last' = RedirectToLogin(req) /\ UNCHANGED <<store, now>>
       ELSE \E method \in Methods : IF method = "GET"
       THEN last' = Render(req) /\ UNCHANGED <<store, now>>
       ELSE \E text \in CommentForms :
         IF ~CommentFormIsValid(text)
         THEN last' = Render(req) /\ UNCHANGED <<store, now>>
         ELSE IF post_id \notin CommentablePosts
         THEN last' = Http404(req) /\ UNCHANGED <<store, now>>
         ELSE
            /\ nextComment <= MaxComments
            /\ comments' = Insert(comments, nextComment,
                    [author |-> user, post |-> post_id, text |-> text])
            /\ nextComment' = nextComment + 1
            /\ last' = RedirectToDetail([req EXCEPT !.arg = nextComment], post_id)
            /\ UNCHANGED <<users, categories, locations, posts, nextPost, now>>

CommentUpdateView(user, post_id, comment_id) ==
    LET req == [Request("CommentUpdate", user, comment_id)
                    EXCEPT !.post_id = post_id]
        chk == ContentAuthorCheck(req, comments, post_id)
    IN IF chk.status # "none"
       THEN last' = chk /\ UNCHANGED <<store, now>>
       ELSE \E method \in Methods : IF method = "GET"
       THEN last' = Render(req) /\ UNCHANGED <<store, now>>
       ELSE \E text \in CommentForms :
         IF ~CommentFormIsValid(text)
         THEN last' = Render(req) /\ UNCHANGED <<store, now>>
         ELSE
            /\ comments' = [comments EXCEPT ![comment_id].text = text]
            /\ last' = RedirectToDetail(req, post_id)
            /\ UNCHANGED <<users, categories, locations, posts,
                           nextPost, nextComment, now>>

CommentDeleteView(user, post_id, comment_id) ==
    LET req == [Request("CommentDelete", user, comment_id)
                    EXCEPT !.post_id = post_id]
        chk == ContentAuthorCheck(req, comments, post_id)
    IN IF chk.status # "none"
       THEN last' = chk /\ UNCHANGED <<store, now>>
       ELSE \E method \in Methods : IF method = "GET"
       THEN last' = Render(req) /\ UNCHANGED <<store, now>>
       ELSE /\ comments' = Restrict(comments, DOMAIN comments \ {comment_id})
            /\ last' = RedirectToDetail(
                    [req EXCEPT !.delComments = {comment_id}], post_id)
            /\ UNCHANGED <<users, categories, locations, posts,
                           nextPost, nextComment, now>>

----------------------------------------------------------------------------
(* Admin site (blog/admin.py) and row deletions under the on_delete rules *)

AdminRequest(op, arg) == Request(op, AnonymousUser, arg)

(* BaseAdmin.list_editable = ('is_published',), registered for Category *)
AdminSetCategoryPublished(c, b) ==
    /\ c \in DOMAIN categories
    /\ categories[c].is_published # b
    /\ categories' = [categories EXCEPT ![c].is_published = b]
    /\ last' = Render(AdminRequest("AdminSetCategoryPublished", c))
    /\ UNCHANGED <<users, locations, posts, comments, nextPost, nextComment, now>>

(* BaseAdmin.list_editable = ('is_published',), registered for Post *)
AdminSetPostPublished(p, b) ==
    /\ p \in DOMAIN posts
    /\ posts[p].is_published # b
    /\ posts' = [posts EXCEPT ![p].is_published = b]
    /\ last' = Render(AdminRequest("AdminSetPostPublished", p))
    /\ UNCHANGED <<users, categories, locations, comments, nextPost, nextComment, now>>

DeleteCategory(c) ==
    /\ c \in DOMAIN categories
    /\ categories' = Restrict(categories, DOMAIN categories \ {c})
    /\ posts' = CategorySetNull(c)
    /\ last' = Render([AdminRequest("DeleteCategory", c) EXCEPT
                        !.setNull = {p \in DOMAIN posts : posts[p].category = c}])
    /\ UNCHANGED <<users, locations, comments, nextPost, nextComment, now>>

DeleteLocation(l) ==
    /\ l \in locations
    /\ locations' = locations \ {l}
    /\ posts' = LocationSetNull(l)
    /\ last' = Render([AdminRequest("DeleteLocation", l) EXCEPT
                        !.setNull = {p \in DOMAIN posts : posts[p].location = l}])
    /\ UNCHANGED <<users, categories, comments, nextPost, nextComment, now>>

DeleteUser(u) ==
    /\ u \in DOMAIN users
    /\ LET delP == PostsOfUser(u)
           delC == CommentsOfUser(u) \cup CommentsOfPosts(delP)
       IN /\ users' = Restrict(users, DOMAIN users \ {u})
          /\ posts' = Restrict(posts, DOMAIN posts \ delP)
          /\ comments' = Restrict(comments, DOMAIN comments \ delC)
          /\ last' = Render([AdminRequest("DeleteUser", u)
                                EXCEPT !.delPosts = delP, !.delComments = delC])
    /\ UNCHANGED <<categories, locations, nextPost, nextComment, now>>

(* timezone.now() advances *)
Tick ==
    /\ now < MaxTime
    /\ now' = now + 1
    /\ last' = [NoRequest EXCEPT !.op = "Tick"]
    /\ UNCHANGED store

----------------------------------------------------------------------------
Reads ==
    \/ \E page \in Pages : PostListView(page)
    \/ \E u \in Requesters, p \in PostIds : PostDetailView(u, p)
    \/ \E c \in Categories, page \in Pages : CategoryListView(c, page)
    \/ \E u \in Requesters, a \in Users, page \in Pages :
          ProfileListView(u, a, page)

Writes ==
    \/ \E u \in Requesters : PostCreateView(u)
    \/ \E u \in Requesters, p \in PostIds : PostUpdateView(u, p)
    \/ \E u \in Requesters, p \in PostIds : PostDeleteView(u, p)
    \/ \E u \in Requesters, p \in PostIds :
          CommentCreateView(u, p)
    \/ \E u \in Requesters, p \in PostIds, c \in CommentIds :
          CommentUpdateView(u, p, c)
    \/ \E u \in Requesters, p \in PostIds, c \in CommentIds :
          CommentDeleteView(u, p, c)

Admin ==
    \/ \E c \in Categories, b \in BOOLEAN : AdminSetCategoryPublished(c, b)
    \/ \E p \in PostIds, b \in BOOLEAN : AdminSetPostPublished(p, b)
    \/ \E c \in Categories : DeleteCategory(c)
    \/ \E u \in Users : DeleteUser(u)

(* The mutating side: every create, update and delete request, the admin
   site's changes and the clock *)
Next == Writes \/ Admin \/ Tick

Spec == Init /\ [][Next]_vars

(* The query side: the read views over the stores that post requests, the
   admin site and the clock produce.  Comments do not enter any query
   (comment_count is an annotation of the rows), so the comment views are
   left out here. *)
NextRead ==
    \/ Reads
    \/ \E u \in Requesters : PostCreateView(u)
    \/ \E u \in Requesters, p \in PostIds : PostUpdateView(u, p)
    \/ \E c \in Categories, b \in BOOLEAN : AdminSetCategoryPublished(c, b)
    \/ \E p \in PostIds, b \in BOOLEAN : AdminSetPostPublished(p, b)
    \/ \E c \in Categories : DeleteCategory(c)
    \/ \E u \in Users : DeleteUser(u)
    \/ Tick

SpecRead == Init /\ [][NextRead]_vars

(* Posts with their two nullable references, and the accounts' profiles *)
NextRefs ==
    \/ \E u \in Requesters : PostCreateView(u)
    \/ \E u \in Requesters, p \in PostIds : PostUpdateView(u, p)
    \/ \E u \in Requesters, p \in PostIds : PostDeleteView(u, p)
    \/ \E u \in Requesters : ProfileUpdateView(u)
    \/ \E p \in PostIds, b \in BOOLEAN : AdminSetPostPublished(p, b)
    \/ \E c \in Categories : DeleteCategory(c)
    \/ \E l \in Locations : DeleteLocation(l)

SpecRefs == InitRefs /\ [][NextRefs]_vars

(* The paginated listings over a long list of posts *)
NextPage ==
    \/ \E page \in Pages : PostListView(page)
    \/ \E c \in Categories, page \in Pages : CategoryListView(c, page)
    \/ \E u \in Requesters, a \in Users, page \in Pages :
          ProfileListView(u, a, page)

SpecPage == InitPage /\ [][NextPage]_vars

----------------------------------------------------------------------------
(* Vocabulary of the properties *)

Range(s) == {s[i] : i \in DOMAIN s}

(* "Publicly visible": is_published, pub_date <= now, category present and
   published *)
PubliclyVisible(p) ==
    /\ posts[p].is_published
    /\ posts[p].pub_date <= now
    /\ posts[p].category # Null
    /\ posts[p].category \in DOMAIN categories
    /\ categories[posts[p].category].is_published

ListOps == {"PostList", "CategoryList", "ProfileList"}

WriteOps ==
    {"PostCreate", "PostUpdate", "PostDelete", "ProfileUpdate",
     "CommentCreate", "CommentUpdate", "CommentDelete"}

ViewOps == ListOps \cup WriteOps \cup {"PostDetail"}

(* seq lists rows of posts without repetition, newest pub_date first *)
DescendingNoRepeat(seq) ==
    \A i, j \in DOMAIN seq :
        i < j => /\ seq[i] # seq[j]
                 /\ posts[seq[i]].pub_date >= posts[seq[j]].pub_date

(* The rows a listing request ranges over *)
ListingRows(req) ==
    CASE req.op = "PostList" -> {p \in DOMAIN posts : PubliclyVisible(p)}
      [] req.op = "CategoryList" ->
            {p \in DOMAIN posts : PubliclyVisible(p) /\ posts[p].category = req.arg}
      [] req.op = "ProfileList" -> {p \in DOMAIN posts : posts[p].author = req.arg}

(* p may stand at position k of the rows S ordered by pub_date descending *)
AtPosition(S, p, k) ==
    /\ Cardinality({q \in S : posts[q].pub_date > posts[p].pub_date}) < k
    /\ k <= Cardinality({q \in S : posts[q].pub_date >= posts[p].pub_date})

(* items is the slice [POSTS_COUNT*(N-1), POSTS_COUNT*N) of the ordered rows S *)
IsPageOf(items, S, N) ==
    /\ Len(items) = Min(POSTS_COUNT, Cardinality(S) - POSTS_COUNT * (N - 1))
    /\ Range(items) \subseteq S
    /\ DescendingNoRepeat(items)
    /\ \A i \in DOMAIN items : AtPosition(S, items[i], POSTS_COUNT * (N - 1) + i)

----------------------------------------------------------------------------
(* C1: the home listing holds exactly the posts that are published, not
   dated in the future and in a category that exists and is published,
   newest pub_date first. *)
C1_ListPublicPosts ==
    (last.op = "PostList" /\ last.page = 1) =>
        /\ last.status = "200"
        /\ Range(last.items) \subseteq DOMAIN posts
        /\ \A p \in DOMAIN posts : p \in Range(last.items) <=> PubliclyVisible(p)
        /\ DescendingNoRepeat(last.items)

(* The home listing shows one post and leaves out another that is
   published, in the same published category, but dated in the future *)
C1_Witness ==
    /\ last.op = "PostList"
    /\ last.status = "200"
    /\ Len(last.items) = 1
    /\ \E p \in DOMAIN posts :
          /\ p \notin Range(last.items)
          /\ posts[p].is_published
          /\ posts[p].pub_date > now
          /\ posts[p].category = posts[last.items[1]].category

(* C2: post detail answers the author with the post whatever its state, a
   non-author with the post when it is publicly visible, and with 404 in
   every other case, a post without category included. *)
C2_PostDetail ==
    (last.op = "PostDetail" /\ last.arg \in DOMAIN posts) =>
        IF last.user = posts[last.arg].author \/ PubliclyVisible(last.arg)
        THEN last.status = "200" /\ last.items = <<last.arg>>
        ELSE last.status = "404"

(* C3: an unauthenticated create request, and an unauthenticated update or
   delete request on an existing post or comment, is redirected to the login
   page and changes nothing. *)
C3_UnauthenticatedToLogin ==
    [][( /\ last'.op \in WriteOps
         /\ last'.user = AnonymousUser
         /\ last'.op \in {"PostUpdate", "PostDelete"} => last'.arg \in DOMAIN posts
         /\ last'.op \in {"CommentUpdate", "CommentDelete"} =>
                last'.arg \in DOMAIN comments )
        => /\ last'.status = "login"
           /\ UNCHANGED store]_vars

(* C4: an update or delete request by an authenticated user who is not the
   author of the existing post or comment is redirected to the detail page
   of the post_id of the request and leaves the store as it was. *)
C4_NonAuthorRedirected ==
    [][/\ ( /\ last'.op \in {"PostUpdate", "PostDelete"}
            /\ last'.user \in DOMAIN users
            /\ last'.arg \in DOMAIN posts
            /\ posts[last'.arg].author # last'.user )
          => /\ last'.status = "detail"
             /\ last'.target = last'.arg
             /\ UNCHANGED store
       /\ ( /\ last'.op \in {"CommentUpdate", "CommentDelete"}
            /\ last'.user \in DOMAIN users
            /\ last'.arg \in DOMAIN comments
            /\ comments[last'.arg].author # last'.user )
          => /\ last'.status = "detail"
             /\ last'.target = last'.post_id
             /\ UNCHANGED store
      ]_vars

(* A logged-in user was redirected from deleting somebody else's comment *)
C4_Witness ==
    /\ last.op = "CommentDelete"
    /\ last.status = "detail"
    /\ last.user \in DOMAIN users
    /\ last.arg \in DOMAIN comments
    /\ comments[last.arg].author # last.user

(* C5 as stated: a comment leaves the store only through its author's
   delete request or together with its post; every stored comment has its
   post in the store. *)
C5_CascadeOnlyFromPost ==
    [][/\ \A c \in DOMAIN comments' : comments'[c].post \in DOMAIN posts'
       /\ \A c \in DOMAIN comments \ DOMAIN comments' :
            \/ /\ last'.op = "CommentDelete"
               /\ last'.arg = c
               /\ last'.user = comments[c].author
            \/ comments[c].post \notin DOMAIN posts'
      ]_vars

(* C5 amended: a comment leaves the store only through its author's delete
   request, together with its post, or together with its author's account;
   every stored comment has its post and its author in the store. *)
C5_CascadeFromPostAndAuthor ==
    [][/\ \A c \in DOMAIN comments' :
            /\ comments'[c].post \in DOMAIN posts'
            /\ comments'[c].author \in DOMAIN users'
       /\ \A c \in DOMAIN comments \ DOMAIN comments' :
            \/ /\ last'.op = "CommentDelete"
               /\ last'.arg = c
               /\ last'.user = comments[c].author
            \/ comments[c].post \notin DOMAIN posts'
            \/ comments[c].author \notin DOMAIN users'
      ]_vars

(* An account was deleted and took a comment with it while the commented
   post, written by somebody else, stayed *)
C5_Witness ==
    /\ last.op = "DeleteUser"
    /\ last.delComments # {}
    /\ last.delPosts = {}
    /\ DOMAIN posts # {}

(* C6: a comment is created, for the acting user on the post of the
   request, only when that post is publicly visible at that moment; on a
   missing or not visible post the answer is 404 (or the form again, when
   nothing valid was submitted) and nothing is stored, also for the post's
   author. Comments enter the store in no other way. *)
C6_CommentOnlyOnVisiblePost ==
    [][/\ DOMAIN comments' \ DOMAIN comments # {} => last'.op = "CommentCreate"
       /\ last'.op = "CommentCreate" =>
            /\ UNCHANGED <<users, categories, locations, posts>>
            /\ (comments' # comments \/ last'.status = "detail") =>
                  /\ last'.user \in DOMAIN users
                  /\ last'.post_id \in DOMAIN posts
                  /\ PubliclyVisible(last'.post_id)
                  /\ last'.status = "detail"
                  /\ last'.target = last'.post_id
                  /\ last'.arg \notin DOMAIN comments
                  /\ DOMAIN comments' = DOMAIN comments \cup {last'.arg}
                  /\ \A c \in DOMAIN comments : comments'[c] = comments[c]
                  /\ comments'[last'.arg].author = last'.user
                  /\ comments'[last'.arg].post = last'.post_id
            /\ ( /\ last'.user \in DOMAIN users
                 /\ \/ last'.post_id \notin DOMAIN posts
                    \/ ~PubliclyVisible(last'.post_id) )
               => /\ last'.status \in {"404", "200"}
                  /\ comments' = comments
      ]_vars

(* The author of a post that is not publicly visible tried to comment on it
   and got 404 *)
C6_Witness ==
    /\ last.op = "CommentCreate"
    /\ last.status = "404"
    /\ last.post_id \in DOMAIN posts
    /\ posts[last.post_id].author = last.user
    /\ comments = EmptyTable

(* C7: over the requests to the views, a post or comment gets the acting
   user as author when it is created, keeps that author, and has its other
   fields changed only by an update request of its author. *)
C7_AuthorFixedAndSoleEditor ==
    [][last'.op \in ViewOps =>
        /\ \A p \in DOMAIN posts' :
              IF p \in DOMAIN posts
              THEN /\ posts'[p].author = posts[p].author
                   /\ posts'[p] # posts[p] =>
                         /\ last'.op = "PostUpdate"
                         /\ last'.arg = p
                         /\ last'.user = posts[p].author
              ELSE /\ last'.op = "PostCreate"
                   /\ last'.user \in DOMAIN users
                   /\ posts'[p].author = last'.user
        /\ \A c \in DOMAIN comments' :
              IF c \in DOMAIN comments
              THEN /\ comments'[c].author = comments[c].author
                   /\ comments'[c] # comments[c] =>
                         /\ last'.op = "CommentUpdate"
                         /\ last'.arg = c
                         /\ last'.user = comments[c].author
              ELSE /\ last'.op = "CommentCreate"
                   /\ last'.user \in DOMAIN users
                   /\ comments'[c].author = last'.user
      ]_vars

(* An author's update of the own post went through while the other user has
   a post too *)
C7_Witness ==
    /\ last.op = "PostUpdate"
    /\ last.status = "detail"
    /\ last.arg \in DOMAIN posts
    /\ posts[last.arg].author = last.user
    /\ \E q \in DOMAIN posts : posts[q].author # last.user

(* C8: deleting a Category or a Location keeps every post; the reference to
   the deleted row becomes null and nothing else of any post changes. *)
C8_DeleteNullsReference ==
    [][/\ last'.op = "DeleteCategory" =>
            /\ DOMAIN posts' = DOMAIN posts
            /\ \A p \in DOMAIN posts :
                  posts'[p] =
                     [posts[p] EXCEPT
                        !.category = IF @ = last'.arg THEN Null ELSE @]
       /\ last'.op = "DeleteLocation" =>
            /\ DOMAIN posts' = DOMAIN posts
            /\ \A p \in DOMAIN posts :
                  posts'[p] =
                     [posts[p] EXCEPT
                        !.location = IF @ = last'.arg THEN Null ELSE @]
      ]_vars

(* A category was deleted under a post that keeps its location *)
C8_Witness ==
    /\ last.op = "DeleteCategory"
    /\ \E p \in last.setNull :
          /\ p \in DOMAIN posts
          /\ posts[p].category = Null
          /\ posts[p].location # Null

(* C9 as stated: page N of a listing is the slice [10(N-1), 10N) of the
   ordered rows; beyond the last row the page is empty and the request
   succeeds all the same. *)
C9_PageNeverErrors ==
    last.op \in ListOps =>
        /\ last.status = "200"
        /\ IF POSTS_COUNT * (last.page - 1) < Cardinality(ListingRows(last))
           THEN IsPageOf(last.items, ListingRows(last), last.page)
           ELSE last.items = <<>>

(* C9 amended: page N of a listing is the slice [10(N-1), 10N) of the
   ordered rows when that slice is not empty, and page 1 of an empty listing
   is an empty page; every other page number is answered with 404. *)
C9_PageSliceOr404 ==
    last.op \in ListOps =>
        IF POSTS_COUNT * (last.page - 1) < Cardinality(ListingRows(last))
        THEN /\ last.status = "200"
             /\ IsPageOf(last.items, ListingRows(last), last.page)
        ELSE IF last.page = 1
        THEN last.status = "200" /\ last.items = <<>>
        ELSE last.status = "404"

(* Page 2 of a home listing of twelve posts holds the two oldest *)
C9_Witness ==
    /\ last.op = "PostList"
    /\ last.page = 2
    /\ last.status = "200"
    /\ Len(last.items) = 2
    /\ Cardinality(DOMAIN posts) = POSTS_COUNT + 2

(* C10: a published post in a published category with pub_date in the
   future is obtained by nobody but its author from the home, category and
   profile listings and from post detail, while its author obtains it from
   post detail; from pub_date on everybody obtains it from the home listing
   and from post detail. *)
C10_FuturePostOnlyForAuthor ==
    \A p \in DOMAIN posts :
        ( /\ posts[p].is_published
          /\ posts[p].category # Null
          /\ categories[posts[p].category].is_published )
        => IF posts[p].pub_date > now
           THEN /\ last.op \in {"PostList", "CategoryList"} =>
                      p \notin Range(last.items)
                /\ (last.op \in {"ProfileList", "PostDetail"}
                        /\ last.user # posts[p].author) =>
                      p \notin Range(last.items)
                /\ (last.op = "PostDetail" /\ last.arg = p
                        /\ last.user = posts[p].author) =>
                      last.status = "200" /\ last.items = <<p>>
           ELSE /\ (last.op = "PostList" /\ last.page = 1) =>
                      last.status = "200" /\ p \in Range(last.items)
                /\ (last.op = "PostDetail" /\ last.arg = p) =>
                      last.status = "200" /\ last.items = <<p>>

====
